---- MODULE Spec2Model ----
(***************************************************************************)
(* Voice/noise labelling pipeline of src/classification.py:                *)
(* segment_audio -> extract_features -> smooth_feature -> classify_segment *)
(* -> export_results.                                                      *)
(*                                                                         *)
(* The program computes in IEEE 754 binary64.  A float is modelled as the  *)
(* record [k, s, m, e]: k = "nan", "inf" or "num"; a number is s * m * 2^e *)
(* with s = 1 or -1 and m a natural of exactly 53 bits (m = 0, e = 0 for   *)
(* zero).  Every operation computes the exact result and rounds it to the  *)
(* nearest float, ties to even, as the hardware does.  Naturals of more    *)
(* than 31 bits are sequences of 15-bit limbs, least significant first.    *)
(* Subnormals, overflow to infinity and the sign of zero are not modelled. *)
(***************************************************************************)
EXTENDS Integers, Sequences, FiniteSets, TLC

VARIABLES pc,
          y_len, sr, min_partial_sec, segments_raw,
          values, window_size, smoothed,
          features, label,
          pitch_frames, parsel,
          energies, flatnesses, pitches, voicing_probs, vb_ratios,
          sm_energies, sm_flatnesses, sm_pitches, sm_voicing_probs, sm_vb_ratios,
          smoothed_labels, results

segVars   == <<y_len, sr, min_partial_sec, segments_raw>>
smVars    == <<values, smoothed>>
clsVars   == <<features, label>>
pitchVars == <<pitch_frames, parsel>>
rawVars   == <<energies, flatnesses, pitches, voicing_probs, vb_ratios>>
smoVars   == <<sm_energies, sm_flatnesses, sm_pitches, sm_voicing_probs, sm_vb_ratios>>
outVars   == <<smoothed_labels, results>>
vars      == <<pc, segVars, window_size, smVars, clsVars, pitchVars,
               rawVars, smoVars, outVars>>

----------------------------------------------------------------------------
(* Bounds of the model *)
MaxLen       == 60   \* longest buffer handed to segment_audio, in samples
MaxSr        == 5    \* sample rates 1..MaxSr (and 100) for segment_audio
MaxRunLen    == 12   \* longest buffer of a pipeline run, in samples
MaxRunWindow == 3    \* largest smoothing window size of a pipeline run
MaxWindow    == 4    \* largest smoothing window size tried
MaxNegWindow == 3    \* smoothing window sizes go down to -MaxNegWindow
MaxSeq       == 4    \* longest feature channel handed to smooth_feature
MaxFrames    == 4    \* most pitch frames returned by the pitch analyzer

----------------------------------------------------------------------------
(* Naturals as limb sequences *)
LimbBits == 15
LimbBase == 32768
MantBits == 53

Max(a, b) == IF a >= b THEN a ELSE b
Min(a, b) == IF a <= b THEN a ELSE b

RECURSIVE Pow2(_)
Pow2(k) == IF k = 0 THEN 1 ELSE 2 * Pow2(k - 1)

RECURSIVE IntBitLen(_)
IntBitLen(v) == IF v = 0 THEN 0 ELSE 1 + IntBitLen(v \div 2)

RECURSIVE Zeros(_)
Zeros(n) == IF n <= 0 THEN <<>> ELSE <<0>> \o Zeros(n - 1)

RECURSIVE BTrim(_)
BTrim(x) == IF x = <<>> THEN <<>>
            ELSE IF x[Len(x)] = 0 THEN BTrim(SubSeq(x, 1, Len(x) - 1))
            ELSE x

RECURSIVE BFromInt(_)
BFromInt(n) == IF n = 0 THEN <<>>
               ELSE <<n % LimbBase>> \o BFromInt(n \div LimbBase)

BRest(x) == IF x = <<>> THEN <<>> ELSE Tail(x)
BLow(x)  == IF x = <<>> THEN 0 ELSE x[1]

RECURSIVE BAddC(_, _, _)
BAddC(x, y, c) ==
    IF x = <<>> /\ y = <<>> THEN (IF c = 0 THEN <<>> ELSE <<c>>)
    ELSE LET t == BLow(x) + BLow(y) + c
         IN <<t % LimbBase>> \o BAddC(BRest(x), BRest(y), t \div LimbBase)
BAdd(x, y) == BAddC(x, y, 0)

(* x - y for x >= y *)
RECURSIVE BSubC(_, _, _)
BSubC(x, y, c) ==
    IF x = <<>> THEN <<>>
    ELSE LET t == x[1] - BLow(y) - c
         IN IF t < 0 THEN <<t + LimbBase>> \o BSubC(Tail(x), BRest(y), 1)
            ELSE <<t>> \o BSubC(Tail(x), BRest(y), 0)
BSub(x, y) == BTrim(BSubC(x, y, 0))

(* -1, 0, 1 for x < y, x = y, x > y; x and y without leading zero limbs *)
RECURSIVE BCmpFrom(_, _, _)
BCmpFrom(x, y, i) ==
    IF i = 0 THEN 0
    ELSE IF x[i] < y[i] THEN -1
    ELSE IF x[i] > y[i] THEN 1
    ELSE BCmpFrom(x, y, i - 1)
BCmp(x, y) == IF Len(x) < Len(y) THEN -1
              ELSE IF Len(x) > Len(y) THEN 1
              ELSE BCmpFrom(x, y, Len(x))

(* x * k for 0 <= k <= LimbBase *)
RECURSIVE BMulSmallC(_, _, _)
BMulSmallC(x, k, c) ==
    IF x = <<>> THEN (IF c = 0 THEN <<>> ELSE <<c>>)
    ELSE LET t == x[1] * k + c
         IN <<t % LimbBase>> \o BMulSmallC(Tail(x), k, t \div LimbBase)
BMulSmall(x, k) == BTrim(BMulSmallC(x, k, 0))

RECURSIVE BMul(_, _)
BMul(x, y) ==
    IF x = <<>> \/ y = <<>> THEN <<>>
    ELSE BTrim(BAdd(BMulSmall(x, y[1]), <<0>> \o BMul(x, Tail(y))))

(* quotient and remainder of x by k, 1 <= k <= LimbBase *)
RECURSIVE BDivRec(_, _, _, _)
BDivRec(x, i, k, r) ==
    IF i = 0 THEN [q |-> <<>>, r |-> r]
    ELSE LET cur   == r * LimbBase + x[i]
             lower == BDivRec(x, i - 1, k, cur % k)
         IN [q |-> Append(lower.q, cur \div k), r |-> lower.r]
BDivSmall(x, k) == LET d == BDivRec(x, Len(x), k, 0)
                   IN [q |-> BTrim(d.q), r |-> d.r]

BShl(x, n) == IF x = <<>> THEN <<>>
              ELSE Zeros(n \div LimbBits) \o BMulSmall(x, Pow2(n % LimbBits))
BShr(x, n) == BDivSmall(SubSeq(x, (n \div LimbBits) + 1, Len(x)),
                        Pow2(n % LimbBits)).q
BBitLen(x) == IF x = <<>> THEN 0
              ELSE LimbBits * (Len(x) - 1) + IntBitLen(x[Len(x)])
BBit(x, n) == IF (n \div LimbBits) + 1 > Len(x) THEN 0
              ELSE (x[(n \div LimbBits) + 1] \div Pow2(n % LimbBits)) % 2
(* x mod 2^n = 0 *)
BLowZero(x, n) ==
    /\ \A i \in 1..Min(n \div LimbBits, Len(x)) : x[i] = 0
    /\ (n \div LimbBits) + 1 <= Len(x) =>
          x[(n \div LimbBits) + 1] % Pow2(n % LimbBits) = 0

----------------------------------------------------------------------------
(* binary64 *)
F64NaN  == [k |-> "nan", s |-> 1, m |-> <<>>, e |-> 0]
F64Zero == [k |-> "num", s |-> 1, m |-> <<>>, e |-> 0]
F64Inf(sign) == [k |-> "inf", s |-> sign, m |-> <<>>, e |-> 0]
IsNaN(a)  == a.k = "nan"
IsZero(a) == a.k = "num" /\ a.m = <<>>

(* sign * n * 2^e rounded to 53 bits, ties to even *)
F64Round(sign, n, e) ==
    IF n = <<>> THEN F64Zero
    ELSE LET len == BBitLen(n)
         IN IF len <= MantBits
            THEN [k |-> "num", s |-> sign, m |-> BShl(n, MantBits - len),
                  e |-> e - (MantBits - len)]
            ELSE LET d    == len - MantBits
                     q    == BShr(n, d)
                     up   == /\ BBit(n, d - 1) = 1
                             /\ (~BLowZero(n, d - 1) \/ BBit(n, d) = 1)
                     q2   == IF up THEN BAdd(q, <<1>>) ELSE q
                 IN IF BBitLen(q2) > MantBits
                    THEN [k |-> "num", s |-> sign, m |-> BShr(q2, 1),
                          e |-> e + d + 1]
                    ELSE [k |-> "num", s |-> sign, m |-> q2, e |-> e + d]

F64FromInt(n) == IF n >= 0 THEN F64Round(1, BFromInt(n), 0)
                 ELSE F64Round(-1, BFromInt(0 - n), 0)

F64Add(a, b) ==
    IF IsNaN(a) \/ IsNaN(b) THEN F64NaN
    ELSE IF a.k = "inf" THEN (IF b.k = "inf" /\ b.s # a.s THEN F64NaN ELSE a)
    ELSE IF b.k = "inf" THEN b
    ELSE IF IsZero(a) THEN b
    ELSE IF IsZero(b) THEN a
    ELSE LET lo == Min(a.e, b.e)
             x  == BShl(a.m, a.e - lo)
             y  == BShl(b.m, b.e - lo)
         IN IF a.s = b.s THEN F64Round(a.s, BAdd(x, y), lo)
            ELSE IF BCmp(x, y) = 0 THEN F64Zero
            ELSE IF BCmp(x, y) > 0 THEN F64Round(a.s, BSub(x, y), lo)
            ELSE F64Round(b.s, BSub(y, x), lo)

F64Mul(a, b) ==
    IF IsNaN(a) \/ IsNaN(b) THEN F64NaN
    ELSE IF a.k = "inf" \/ b.k = "inf"
         THEN (IF IsZero(a) \/ IsZero(b) THEN F64NaN ELSE F64Inf(a.s * b.s))
    ELSE F64Round(a.s * b.s, BMul(a.m, b.m), a.e + b.e)

(* a / n for an integer n with |n| <= LimbBase; x / 0 is nan for x = 0 and
   an infinity otherwise, as numpy's true division gives. *)
F64DivInt(a, n) ==
    IF IsNaN(a) THEN F64NaN
    ELSE IF n = 0 THEN (IF IsZero(a) THEN F64NaN ELSE F64Inf(a.s))
    ELSE IF a.k = "inf" THEN F64Inf(IF n > 0 THEN a.s ELSE 0 - a.s)
    ELSE IF IsZero(a) THEN F64Zero
    ELSE LET d    == IF n > 0 THEN n ELSE 0 - n
             sign == IF n > 0 THEN a.s ELSE 0 - a.s
             qr   == BDivSmall(BShl(a.m, 18), d)
             n2   == BAdd(BShl(qr.q, 1), IF qr.r = 0 THEN <<>> ELSE <<1>>)
         IN F64Round(sign, n2, a.e - 19)

(* the float nearest to the fraction n/d, as a decimal literal is read *)
F64FromRatio(n, d) == F64DivInt(F64FromInt(n), d)

(* -1, 0, 1 for a < b, a = b, a > b; neither is nan *)
F64Sign(a) == IF IsZero(a) THEN 0 ELSE a.s
F64MagCmp(a, b) ==
    IF a.k = "inf" THEN (IF b.k = "inf" THEN 0 ELSE 1)
    ELSE IF b.k = "inf" THEN -1
    ELSE IF a.e < b.e THEN -1
    ELSE IF a.e > b.e THEN 1
    ELSE BCmp(a.m, b.m)
F64Cmp(a, b) ==
    IF F64Sign(a) < F64Sign(b) THEN -1
    ELSE IF F64Sign(a) > F64Sign(b) THEN 1
    ELSE IF F64Sign(a) = 0 THEN 0
    ELSE F64Sign(a) * F64MagCmp(a, b)

(* <, <= and == of Python floats: FALSE when an operand is nan *)
F64Lt(a, b) == ~IsNaN(a) /\ ~IsNaN(b) /\ F64Cmp(a, b) < 0
F64Le(a, b) == ~IsNaN(a) /\ ~IsNaN(b) /\ F64Cmp(a, b) <= 0
F64Eq(a, b) == ~IsNaN(a) /\ ~IsNaN(b) /\ F64Cmp(a, b) = 0

----------------------------------------------------------------------------
(* Python and numpy helpers *)

(* values[lo:hi] of a Python sequence: a negative index counts from the end,
   both indices are clamped to 0..len, and lo >= hi gives the empty slice. *)
PyIndex(i, n) == IF i < 0 THEN Max(i + n, 0) ELSE Min(i, n)
PySlice(s, lo, hi) == SubSeq(s, PyIndex(lo, Len(s)) + 1, PyIndex(hi, Len(s)))

RECURSIVE FoldAdd(_, _)
FoldAdd(acc, s) == IF s = <<>> THEN acc
                   ELSE FoldAdd(F64Add(acc, s[1]), Tail(s))

(* the unrolled loop of numpy's pairwise sum: eight running sums *)
RECURSIVE Block8(_, _)
Block8(r, s) ==
    IF Len(s) < 8 THEN [r |-> r, rest |-> s]
    ELSE Block8([j \in 1..8 |-> F64Add(r[j], s[j])], SubSeq(s, 9, Len(s)))

(* r[lo] + ... + r[hi] added by halves: ((r1+r2)+(r3+r4))+((r5+r6)+(r7+r8)) *)
RECURSIVE TreeAdd(_, _, _)
TreeAdd(r, lo, hi) ==
    IF lo = hi THEN r[lo]
    ELSE LET mid == (lo + hi) \div 2
         IN F64Add(TreeAdd(r, lo, mid), TreeAdd(r, mid + 1, hi))

PW_BLOCKSIZE == 128

(* numpy's sum of a float64 array: fewer than 8 elements are added left to
   right from 0; up to PW_BLOCKSIZE elements go into eight running sums, which
   are added by halves, and the last n mod 8 elements are added one by one;
   a longer array is summed in two halves. *)
RECURSIVE pairwise_sum(_)
pairwise_sum(s) ==
    LET n == Len(s)
    IN IF n <= PW_BLOCKSIZE
       THEN LET b == IF n < 8 THEN [r |-> <<F64Zero>>, rest |-> s]
                     ELSE Block8(SubSeq(s, 1, 8), SubSeq(s, 9, n))
            IN FoldAdd(TreeAdd(b.r, 1, Len(b.r)), b.rest)
       ELSE LET h  == n \div 2
                n2 == h - (h % 8)
            IN TreeAdd(<<pairwise_sum(SubSeq(s, 1, n2)),
                         pairwise_sum(SubSeq(s, n2 + 1, n))>>, 1, 2)

np_sum(s) == F64Add(F64Zero, pairwise_sum(s))

(* np.mean: sum / count; the mean of an empty slice is nan (0/0). *)
np_mean(s) == F64DivInt(np_sum(s), Len(s))

----------------------------------------------------------------------------
(* Thresholds, classification.py lines 12-16 *)
ENERGY_THRESHOLD       == 100
PITCH_RANGE            == <<75, 500>>
FLATNESS_THRESHOLD     == F64FromRatio(4, 10)
VOICING_PROB_THRESHOLD == F64FromRatio(25, 100)
VB_RATIO_THRESHOLD     == F64FromRatio(-35, 100)

----------------------------------------------------------------------------
(* segment_audio: the buffer y is represented by its length; a segment is the
   slice <<start, stop>> of sample indices start..stop-1. *)
segment_audio(n, rate, min_partial) ==
    LET segment_length == rate
        total_segments == n \div segment_length
        full == [i \in 1..total_segments |->
                    <<(i - 1) * segment_length, i * segment_length>>]
        remainder == <<total_segments * segment_length, n>>
    IN IF F64Lt(F64Mul(min_partial, F64FromInt(segment_length)),
                F64FromInt(remainder[2] - remainder[1]))
       THEN Append(full, remainder)
       ELSE full

----------------------------------------------------------------------------
(* extract_parselmouth_features, given the per-frame frequencies that the
   pitch analyzer returned (whole numbers of Hz here):
   <<avg_pitch, voicing_prob>>. *)
RECURSIVE Voiced(_)
Voiced(p) == IF p = <<>> THEN <<>>
             ELSE IF p[1] > 0 THEN <<F64FromInt(p[1])>> \o Voiced(Tail(p))
                  ELSE Voiced(Tail(p))

extract_parselmouth_features(p) ==
    LET avg_pitch == IF \E k \in 1..Len(p) : p[k] > 0
                     THEN np_mean(Voiced(p)) ELSE F64Zero
        voiced_frames == Len(Voiced(p))
        voicing_prob == F64DivInt(F64FromInt(voiced_frames), Len(p))
    IN <<avg_pitch, voicing_prob>>

----------------------------------------------------------------------------
(* smooth_feature: centered moving average with truncated windows. *)
Window_narrow(vals, i, w) ==
    PySlice(vals, Max(0, i - (w \div 2)), Min(Len(vals), i + (w \div 2)))

Window(vals, i, w) ==
    PySlice(vals, Max(0, i - (w \div 2)), Min(Len(vals), i + (w \div 2) + 1))

smooth_feature(vals, w) ==
    [k \in 1..Len(vals) |-> np_mean(Window(vals, k - 1, w))]

----------------------------------------------------------------------------
(* classify_segment: the score of lines 110-118 and the decision. *)
Score_flat_inverted(f) ==
      (IF F64Lt(FLATNESS_THRESHOLD, f.spectral_flatness) THEN 2 ELSE 0)
    + (IF F64Le(F64FromInt(PITCH_RANGE[1]), f.pitch)
          /\ F64Le(f.pitch, F64FromInt(PITCH_RANGE[2])) THEN 1 ELSE 0)
    + (IF F64Lt(VOICING_PROB_THRESHOLD, f.voicing_prob) THEN 1 ELSE 0)
    + (IF F64Lt(VB_RATIO_THRESHOLD, f.voice_band_ratio) THEN 2 ELSE 0)

Score(f) ==
      (IF F64Lt(f.spectral_flatness, FLATNESS_THRESHOLD) THEN 2 ELSE 0)
    + (IF F64Le(F64FromInt(PITCH_RANGE[1]), f.pitch)
          /\ F64Le(f.pitch, F64FromInt(PITCH_RANGE[2])) THEN 1 ELSE 0)
    + (IF F64Lt(VOICING_PROB_THRESHOLD, f.voicing_prob) THEN 1 ELSE 0)
    + (IF F64Lt(VB_RATIO_THRESHOLD, f.voice_band_ratio) THEN 2 ELSE 0)

classify_segment_ungated(f) ==
    IF Score(f) >= 4 THEN "voice" ELSE "noise"

classify_segment_strict(f) ==
    IF F64Lt(f.total_energy, F64FromInt(ENERGY_THRESHOLD)) THEN "noise"
    ELSE IF Score(f) > 4 THEN "voice" ELSE "noise"

classify_segment(f) ==
    IF F64Lt(f.total_energy, F64FromInt(ENERGY_THRESHOLD)) THEN "noise"
    ELSE IF Score(f) >= 4 THEN "voice" ELSE "noise"

----------------------------------------------------------------------------
(* export_results: one record per label; Python's index i is k - 1. *)
export_results_from_one(labels) ==
    [k \in 1..Len(labels) |->
        [start_time |-> k, end_time |-> k + 1, label |-> labels[k]]]

export_results(labels) ==
    [k \in 1..Len(labels) |->
        [start_time |-> k - 1, end_time |-> k, label |-> labels[k]]]

----------------------------------------------------------------------------
(* extract_features: the band energy, the flatness and the band ratio come out
   of the filter and the FFT, the pitch and the voicing out of the frames. *)
FeatureVector(energy, flatness, pv, vb) ==
    [total_energy      |-> energy,
     spectral_flatness |-> flatness,
     pitch             |-> pv[1],
     voicing_prob      |-> pv[2],
     voice_band_ratio  |-> vb]

extract_features(energy, flatness, frames, vb) ==
    FeatureVector(energy, flatness, extract_parselmouth_features(frames), vb)

----------------------------------------------------------------------------
(* Input domains *)
SeqsUpTo(S, n) == UNION {[1..k -> S] : k \in 0..n}

WindowSizes   == (0 - MaxNegWindow)..MaxWindow
RunWindowSizes == (0 - 1)..MaxRunWindow
SampleRates   == (1..MaxSr) \cup {100}
(* tail fractions f = a/b as written, each handed over as the float a/b *)
TailFractions == {<<0, 10>>, <<2, 10>>, <<5, 10>>, <<6, 10>>, <<29, 100>>,
                  <<58, 100>>, <<10, 10>>}
SmoothVals    == {F64FromRatio(1, 10), F64FromRatio(7, 10), F64FromInt(5)}
FrameVals     == {0, 100, 200}

(* the largest float below 100: 100 - 2^-46 *)
Below100 == [k |-> "num", s |-> 1,
             m |-> BSub(BShl(BFromInt(100), 46), <<1>>), e |-> -46]

EnergyGrid   == {F64Zero, Below100, F64FromInt(100), F64FromInt(101), F64NaN}
FlatnessGrid == {F64FromRatio(39, 100), F64FromRatio(4, 10),
                 F64FromRatio(41, 100)}
PitchGrid    == {F64Zero, F64FromInt(74), F64FromInt(75), F64FromInt(500),
                 F64FromInt(501)}
VoicingGrid  == {F64Zero, F64FromRatio(25, 100), F64FromRatio(26, 100),
                 F64NaN}
VbGrid       == {F64FromRatio(-36, 100), F64FromRatio(-35, 100),
                 F64FromRatio(-34, 100)}
FeatureGrid  == [total_energy : EnergyGrid, spectral_flatness : FlatnessGrid,
                 pitch : PitchGrid, voicing_prob : VoicingGrid,
                 voice_band_ratio : VbGrid]

SegEnergies  == {F64Zero, Below100, F64FromInt(250)}
SegFlatness  == {F64FromRatio(1, 10), F64FromRatio(7, 10)}
(* a segment is unvoiced (no voiced frame, band ratio at the threshold) or
   voiced (every frame at 150 Hz, band ratio above the threshold) *)
SegVoicing   == {<<<<0, 0>>, F64FromRatio(-35, 100)>>,
                 <<<<150, 150>>, F64FromRatio(-2, 10)>>}

NoFeatures == [total_energy |-> F64NaN, spectral_flatness |-> F64NaN,
               pitch |-> F64NaN, voicing_prob |-> F64NaN,
               voice_band_ratio |-> F64NaN]

SegIdle   == /\ y_len = 0 /\ sr = 1 /\ min_partial_sec = F64FromRatio(2, 10)
             /\ segments_raw = <<>>
SmIdle    == values = <<>> /\ smoothed = <<>>
ClsIdle   == features = NoFeatures /\ label = "none"
PitchIdle == pitch_frames = <<>> /\ parsel = <<>>
PipeIdle  == /\ energies = <<>> /\ flatnesses = <<>> /\ pitches = <<>>
             /\ voicing_probs = <<>> /\ vb_ratios = <<>>
             /\ sm_energies = <<>> /\ sm_flatnesses = <<>> /\ sm_pitches = <<>>
             /\ sm_voicing_probs = <<>> /\ sm_vb_ratios = <<>>
             /\ smoothed_labels = <<>> /\ results = <<>>

----------------------------------------------------------------------------
(* The run of __main__, lines 191-227.  The smoothing window is the
   window_size parameter of smooth_feature; __main__ leaves it at 3. *)
Init ==
    /\ pc = "start"
    /\ y_len \in 0..MaxRunLen
    /\ sr = MaxSr
    /\ min_partial_sec = F64FromRatio(2, 10)
    /\ segments_raw = <<>>
    /\ window_size \in RunWindowSizes
    /\ SmIdle /\ ClsIdle /\ PitchIdle /\ PipeIdle

(* line 194 *)
SegmentAudio ==
    /\ pc = "start"
    /\ segments_raw' = segment_audio(y_len, sr, min_partial_sec)
    /\ pc' = "extract"
    /\ UNCHANGED <<y_len, sr, min_partial_sec, window_size, smVars, clsVars,
                   pitchVars, rawVars, smoVars, outVars>>

(* lines 200-204: the five appends of one iteration *)
AppendFeatures(f) ==
    /\ energies' = Append(energies, f.total_energy)
    /\ flatnesses' = Append(flatnesses, f.spectral_flatness)
    /\ pitches' = Append(pitches, f.pitch)
    /\ voicing_probs' = Append(voicing_probs, f.voicing_prob)
    /\ vb_ratios' = Append(vb_ratios, f.voice_band_ratio)

(* lines 198-204, one iteration *)
ExtractNext ==
    /\ pc = "extract"
    /\ Len(energies) < Len(segments_raw)
    /\ \E e \in SegEnergies, fl \in SegFlatness, v \in SegVoicing :
         AppendFeatures(extract_features(e, fl, v[1], v[2]))
    /\ UNCHANGED <<pc, segVars, window_size, smVars, clsVars, pitchVars,
                   smoVars, outVars>>

(* lines 207-211 *)
SmoothFeatures ==
    /\ pc = "extract"
    /\ Len(energies) = Len(segments_raw)
    /\ sm_energies' = smooth_feature(energies, window_size)
    /\ sm_flatnesses' = smooth_feature(flatnesses, window_size)
    /\ sm_pitches' = smooth_feature(pitches, window_size)
    /\ sm_voicing_probs' = smooth_feature(voicing_probs, window_size)
    /\ sm_vb_ratios' = smooth_feature(vb_ratios, window_size)
    /\ pc' = "classify"
    /\ UNCHANGED <<segVars, window_size, smVars, clsVars, pitchVars, rawVars,
                   outVars>>

smoothed_features(i) ==
    [total_energy      |-> sm_energies[i],
     spectral_flatness |-> sm_flatnesses[i],
     pitch             |-> sm_pitches[i],
     voicing_prob      |-> sm_voicing_probs[i],
     voice_band_ratio  |-> sm_vb_ratios[i]]

(* lines 215-223, one iteration *)
ClassifyNext ==
    /\ pc = "classify"
    /\ Len(smoothed_labels) < Len(sm_energies)
    /\ smoothed_labels' =
          Append(smoothed_labels,
                 classify_segment(smoothed_features(Len(smoothed_labels) + 1)))
    /\ UNCHANGED <<pc, segVars, window_size, smVars, clsVars, pitchVars,
                   rawVars, smoVars, results>>

(* line 227 *)
ExportResults ==
    /\ pc = "classify"
    /\ Len(smoothed_labels) = Len(sm_energies)
    /\ results' = export_results(smoothed_labels)
    /\ pc' = "done"
    /\ UNCHANGED <<segVars, window_size, smVars, clsVars, pitchVars, rawVars,
                   smoVars, smoothed_labels>>

Next == \/ SegmentAudio
        \/ ExtractNext
        \/ SmoothFeatures
        \/ ClassifyNext
        \/ ExportResults

Spec == Init /\ [][Next]_vars

----------------------------------------------------------------------------
(* segment_audio on its own, over sample rates and tail fractions *)
InitSeg ==
    /\ pc = "start"
    /\ y_len \in 0..MaxLen
    /\ sr \in SampleRates
    /\ min_partial_sec \in {F64FromRatio(p[1], p[2]) : p \in TailFractions}
    /\ segments_raw = <<>>
    /\ window_size = 3
    /\ SmIdle /\ ClsIdle /\ PitchIdle /\ PipeIdle

NextSeg == SegmentAudio

SpecSeg == InitSeg /\ [][NextSeg]_vars

----------------------------------------------------------------------------
(* smooth_feature on its own, over channels and window sizes *)
InitSmooth ==
    /\ pc = "start"
    /\ values \in SeqsUpTo(SmoothVals, MaxSeq)
    /\ window_size \in WindowSizes
    /\ smoothed = <<>>
    /\ SegIdle /\ ClsIdle /\ PitchIdle /\ PipeIdle

SmoothValues ==
    /\ pc = "start"
    /\ smoothed' = smooth_feature(values, window_size)
    /\ pc' = "smoothed"
    /\ UNCHANGED <<segVars, window_size, values, clsVars, pitchVars, rawVars,
                   smoVars, outVars>>

NextSmooth == SmoothValues

SpecSmooth == InitSmooth /\ [][NextSmooth]_vars

----------------------------------------------------------------------------
(* classify_segment on its own, over a grid around the thresholds *)
InitClassify ==
    /\ pc = "start"
    /\ features \in FeatureGrid
    /\ label = "none"
    /\ window_size = 3
    /\ SegIdle /\ SmIdle /\ PitchIdle /\ PipeIdle

ClassifySegment ==
    /\ pc = "start"
    /\ label' = classify_segment(features)
    /\ pc' = "classified"
    /\ UNCHANGED <<segVars, window_size, smVars, features, pitchVars, rawVars,
                   smoVars, outVars>>

NextClassify == ClassifySegment

SpecClassify == InitClassify /\ [][NextClassify]_vars

----------------------------------------------------------------------------
(* extract_parselmouth_features on its own, over the analyzer's frames *)
InitPitch ==
    /\ pc = "start"
    /\ pitch_frames \in SeqsUpTo(FrameVals, MaxFrames)
    /\ parsel = <<>>
    /\ window_size = 3
    /\ SegIdle /\ SmIdle /\ ClsIdle /\ PipeIdle

ExtractParselmouth ==
    /\ pc = "start"
    /\ parsel' = extract_parselmouth_features(pitch_frames)
    /\ pc' = "extracted"
    /\ UNCHANGED <<segVars, window_size, smVars, clsVars, pitch_frames,
                   rawVars, smoVars, outVars>>

NextPitch == ExtractParselmouth

SpecPitch == InitPitch /\ [][NextPitch]_vars

----------------------------------------------------------------------------
(* Properties *)

FloorHalf(w) == w \div 2
CeilHalf(w)  == (w + 1) \div 2

(* C1 as stated (SpecSeg): for the tail fraction f = a/b, segment_audio
   returns floor(N/W) segments, plus one when the remainder N mod W is strictly
   more than f*W samples; a remainder of exactly f*W samples or fewer is
   discarded, so that every segment kept is then a full one.  Fails where the
   float64 product f*W rounds below the exact one (f = 0.58, W = 100, N = 58). *)
C1_TailQualifies(a, b) == (y_len % sr) * b > a * sr

C1_CountFor(a, b) ==
    /\ Len(segments_raw)
          = (y_len \div sr) + (IF C1_TailQualifies(a, b) THEN 1 ELSE 0)
    /\ ~C1_TailQualifies(a, b) =>
          \A k \in 1..Len(segments_raw) :
             segments_raw[k][2] - segments_raw[k][1] = sr

C1_SegmentCount ==
    pc = "extract" =>
       \A p \in TailFractions :
          min_partial_sec = F64FromRatio(p[1], p[2]) => C1_CountFor(p[1], p[2])

(* C2 (SpecClassify): classify_segment answers noise whenever energy < 100,
   whatever the other four fields, and otherwise answers voice exactly when
   +2 (flatness < 0.4) +1 (75 <= pitch <= 500) +1 (voicing > 0.25)
   +2 (band ratio > -0.35) is at least 4; the answer is always one of the
   two labels. *)
C2_Points(f) ==
      (IF F64Lt(f.spectral_flatness, F64FromRatio(4, 10)) THEN 2 ELSE 0)
    + (IF F64Le(F64FromInt(75), f.pitch) /\ F64Le(f.pitch, F64FromInt(500))
       THEN 1 ELSE 0)
    + (IF F64Lt(F64FromRatio(25, 100), f.voicing_prob) THEN 1 ELSE 0)
    + (IF F64Lt(F64FromRatio(-35, 100), f.voice_band_ratio) THEN 2 ELSE 0)

C2_EnergyBelow(f) == F64Lt(f.total_energy, F64FromInt(100))

C2_ClassifyRule ==
    pc = "classified" =>
       /\ label \in {"voice", "noise"}
       /\ C2_EnergyBelow(features) => label = "noise"
       /\ ~C2_EnergyBelow(features) =>
             (label = "voice" <=> C2_Points(features) >= 4)

C2_Witness ==
    /\ pc = "classified"
    /\ label = "voice"
    /\ features.total_energy = F64FromInt(100)
    /\ C2_Points(features) = 4
    /\ features.pitch = F64Zero

(* C3 as stated (SpecSmooth): for every window size w, output i is the mean
   (as float64 arithmetic computes it) of the inputs at indices
   max(0, i - floor(w/2)) .. min(L, i + floor(w/2) + 1) - 1, in that order, and
   the output is as long as the input.  smooth_feature accepts every integer
   w, and for w <= -3 the slice bounds count from the end of the sequence. *)
C3_Range(vals, lo, hi) ==
    IF lo >= hi THEN <<>> ELSE [j \in 1..(hi - lo) |-> vals[lo + j]]

C3_IsMeanOfRange(out, vals, i, w) ==
    LET lo == Max(0, i - FloorHalf(w))
        hi == Min(Len(vals), i + FloorHalf(w) + 1)
    IN out = np_mean(C3_Range(vals, lo, hi))

C3_MeanEverywhere ==
    /\ Len(smoothed) = Len(values)
    /\ \A i \in 0..(Len(values) - 1) :
          C3_IsMeanOfRange(smoothed[i + 1], values, i, window_size)

C3_AsStated ==
    pc = "smoothed" => C3_MeanEverywhere

(* C3 on the window sizes that a validated configuration admits (odd and at
   least 1): the statement holds there. *)
C3_ValidWindowMean ==
    (pc = "smoothed" /\ window_size >= 1 /\ window_size % 2 = 1) =>
       C3_MeanEverywhere

C3_Witness ==
    /\ pc = "smoothed"
    /\ window_size = 3
    /\ values = <<F64FromRatio(1, 10), F64FromRatio(7, 10), F64FromInt(5),
                  F64FromRatio(7, 10)>>
    /\ smoothed[1] = F64DivInt(F64Add(F64FromRatio(1, 10), F64FromRatio(7, 10)), 2)
    /\ F64Lt(smoothed[1], F64FromRatio(4, 10))
    /\ smoothed[2] = F64DivInt(F64Add(F64Add(F64FromRatio(1, 10),
                                             F64FromRatio(7, 10)),
                                      F64FromInt(5)), 3)
    /\ smoothed[4] = F64DivInt(F64Add(F64FromInt(5), F64FromRatio(7, 10)), 2)

(* C4 as stated (SpecSmooth): for L >= 1 and every w, each output index's
   window holds at most w and at least ceil(w/2) elements. *)
C4_AsStated ==
    (pc = "smoothed" /\ Len(values) >= 1) =>
       \A i \in 0..(Len(values) - 1) :
          /\ Len(Window(values, i, window_size)) <= window_size
          /\ Len(Window(values, i, window_size)) >= CeilHalf(window_size)

(* C4 amended (SpecSmooth): for L >= 1 and every w >= 0, each output index's
   window holds at most 2*floor(w/2) + 1 elements (w when w is odd) and at
   least min(L, floor(w/2) + 1) elements (ceil(w/2) when w is odd and the
   sequence is that long). *)
C4_WindowSizeBounds ==
    (pc = "smoothed" /\ Len(values) >= 1 /\ window_size >= 0) =>
       \A i \in 0..(Len(values) - 1) :
          /\ Len(Window(values, i, window_size))
                <= 2 * FloorHalf(window_size) + 1
          /\ Len(Window(values, i, window_size))
                >= Min(Len(values), FloorHalf(window_size) + 1)
          /\ (window_size % 2 = 1) =>
                Len(Window(values, i, window_size)) <= window_size
          /\ (window_size % 2 = 1 /\ Len(values) >= CeilHalf(window_size)) =>
                Len(Window(values, i, window_size)) >= CeilHalf(window_size)

C4_Witness ==
    /\ pc = "smoothed"
    /\ window_size = 3
    /\ Len(values) = 4
    /\ Len(Window(values, 0, window_size)) = 2
    /\ Len(Window(values, 1, window_size)) = 3
    /\ Len(Window(values, 3, window_size)) = 2

(* C5 (SpecSmooth): with window size 1 smooth_feature returns its input,
   element for element, the empty sequence included. *)
C5_IdentityAtOne ==
    (pc = "smoothed" /\ window_size = 1) =>
       /\ Len(smoothed) = Len(values)
       /\ \A k \in 1..Len(values) : F64Eq(smoothed[k], values[k])

C5_Witness ==
    /\ pc = "smoothed"
    /\ window_size = 1
    /\ Len(values) = 3
    /\ values[1] # values[2]
    /\ F64Eq(smoothed[1], values[1])
    /\ F64Eq(smoothed[2], values[2])

(* C6 (SpecClassify): of two feature vectors that differ only in
   spectralFlatness, the one with the lower flatness scores at least as high,
   and a voice label never becomes noise by lowering the flatness alone. *)
C6_Lowered(fl) == [features EXCEPT !.spectral_flatness = fl]

C6_FlatnessMonotone ==
    pc = "classified" =>
       \A fl \in FlatnessGrid :
          F64Le(fl, features.spectral_flatness) =>
             /\ Score(C6_Lowered(fl)) >= Score(features)
             /\ label = "voice" => classify_segment(C6_Lowered(fl)) = "voice"

C6_Witness ==
    /\ pc = "classified"
    /\ label = "noise"
    /\ \E fl \in FlatnessGrid :
          /\ F64Lt(fl, features.spectral_flatness)
          /\ Score(C6_Lowered(fl)) > Score(features)
          /\ classify_segment(C6_Lowered(fl)) = "voice"

(* C7 (Spec): a run over a buffer of n segments ends with exactly n results in
   segment order, result i (from 0) with start_time i, end_time i + 1 and a
   label voice or noise; a zero-length buffer ends with no segment and an
   empty result sequence; before the end, the next step of the run is ready. *)
C7_SomeStepReady ==
    \/ pc = "start"
    \/ pc = "extract" /\ Len(energies) <= Len(segments_raw)
    \/ pc = "classify" /\ Len(smoothed_labels) <= Len(sm_energies)
                       /\ Len(sm_energies) = Len(segments_raw)

C7_ResultsPerSegment ==
    /\ pc # "done" => C7_SomeStepReady
    /\ pc = "done" =>
          /\ Len(results) = Len(segments_raw)
          /\ \A k \in 1..Len(results) :
                /\ results[k].start_time = k - 1
                /\ results[k].end_time = k
                /\ results[k].label \in {"voice", "noise"}
                /\ results[k].label = smoothed_labels[k]
          /\ y_len = 0 => (segments_raw = <<>> /\ results = <<>>)

C7_Witness ==
    /\ pc = "done"
    /\ Len(segments_raw) = 3
    /\ Len(results) = 3
    /\ results[1].label = "voice"
    /\ results[3].label = "noise"
    /\ results[3].start_time = 2

(* C8 (Spec): with the default window 3, when every segment's raw energy is
   below the energy threshold every segment is labeled noise, whatever the
   other four features are. *)
C8_AllQuiet ==
    \A k \in 1..Len(energies) : F64Lt(energies[k], F64FromInt(100))

C8_QuietIsNoise ==
    (window_size = 3 /\ pc \in {"classify", "done"} /\ C8_AllQuiet) =>
       /\ \A k \in 1..Len(smoothed_labels) : smoothed_labels[k] = "noise"
       /\ \A k \in 1..Len(results) : results[k].label = "noise"

C8_Witness ==
    /\ pc = "done"
    /\ window_size = 3
    /\ Len(results) = 3
    /\ C8_AllQuiet
    /\ energies[1] = F64Zero
    /\ energies[2] = Below100
    /\ energies[3] = Below100
    /\ \A k \in 1..3 : Score(smoothed_features(k)) = 6
    /\ \A k \in 1..3 : results[k].label = "noise"

(* C9 as stated (Spec): a window size that is even or below 1 aborts the run
   before any processing: nothing is smoothed, classified or exported. *)
C9_InvalidWindow == window_size % 2 = 0 \/ window_size < 1

C9_InvalidWindowAborts ==
    C9_InvalidWindow =>
       /\ sm_energies = <<>> /\ sm_flatnesses = <<>> /\ sm_pitches = <<>>
       /\ sm_voicing_probs = <<>> /\ sm_vb_ratios = <<>>
       /\ smoothed_labels = <<>>
       /\ results = <<>>

(* C10 as stated (SpecPitch): for every sequence of frames, the empty one
   included, voicingProbability is defined, lies in [0,1], is voiced frames over
   frames analyzed, is 0 exactly when no frame is voiced, and pitchHz is 0 when
   no frame is voiced. *)
C10_VoicedCount == Cardinality({k \in 1..Len(pitch_frames) : pitch_frames[k] > 0})

C10_VoicingDefined ==
    pc = "extracted" =>
       /\ ~IsNaN(parsel[2])
       /\ F64Le(F64Zero, parsel[2]) /\ F64Le(parsel[2], F64FromInt(1))
       /\ Len(pitch_frames) > 0 =>
             F64Eq(parsel[2], F64FromRatio(C10_VoicedCount, Len(pitch_frames)))
       /\ F64Eq(parsel[2], F64Zero) <=> C10_VoicedCount = 0
       /\ C10_VoicedCount = 0 => F64Eq(parsel[1], F64Zero)

====
